---- MODULE Spec2Model ----
(***************************************************************************)
(* LitMan (src/litman.py): a command-line literature manager.  The stored  *)
(* collection is the YAML file litman.yaml, a mapping from label to entry, *)
(* with a pickle cache that every writing command rebuilds from the file.  *)
(* Each command loads the collection, changes the loaded copy and, when no *)
(* exception was raised, writes it back (Resave) or appends to it (Add).   *)
(*                                                                         *)
(* Strings are sequences of one-character strings, so that Strip, lower(), *)
(* substring tests and the ordering used by sort() are computed.           *)
(* The attached document files (copy, move, delete) are not modelled, the  *)
(* backup directory exists, and every Confirm() prompt is answered "y"     *)
(* (any other answer exits before anything is written).                    *)
(***************************************************************************)
EXTENDS Integers, Sequences, FiniteSets, TLC

VARIABLES
    litman_db,  \* the stored collection: the entries of litman.yaml, in file order
    before,     \* the stored collection before the last command
    cmd,        \* the last command and its arguments
    status,     \* how the last command ended: "ok" or the exception raised
    entries,    \* what the last Winnow returned
    saved,      \* the collection and the labels of a Link that an unlink follows
    earlier     \* the answer of the query that the last query repeats

vars == <<litman_db, before, cmd, status, entries, saved, earlier>>

(***************************************************************************)
(* Bounds of the model.                                                    *)
(***************************************************************************)
MaxEntries == 2     \* entries in the collection (guard of Add)
MaxLinks == 3       \* links in the collection (guard of Link)

(***************************************************************************)
(* Python values.                                                          *)
(***************************************************************************)
None == {}
Some(x) == {x}
Val(o) == CHOOSE x \in o : TRUE

Range(s) == {s[i] : i \in DOMAIN s}

\* ord(c) for the characters the model uses.
Ord(c) ==
    CASE c = " " -> 32 [] c = "(" -> 40 [] c = ")" -> 41 [] c = "." -> 46
      [] c = "0" -> 48 [] c = "1" -> 49 [] c = "2" -> 50 [] c = "3" -> 51
      [] c = ":" -> 58
      [] c = "A" -> 65 [] c = "B" -> 66 [] c = "D" -> 68 [] c = "J" -> 74
      [] c = "P" -> 80 [] c = "R" -> 82 [] c = "T" -> 84
      [] c = "_" -> 95
      [] c = "a" -> 97 [] c = "b" -> 98 [] c = "d" -> 100 [] c = "j" -> 106
      [] c = "p" -> 112 [] c = "r" -> 114 [] c = "t" -> 116

\* str.lower() on one character.
LowerChar(c) ==
    CASE c = "A" -> "a" [] c = "B" -> "b" [] c = "D" -> "d" [] c = "J" -> "j"
      [] c = "P" -> "p" [] c = "R" -> "r" [] c = "T" -> "t"
      [] OTHER -> c

\* str.lower()
Lower(s) == [i \in DOMAIN s |-> LowerChar(s[i])]

\* s < t for two strings (code point order, a proper prefix is smaller).
RECURSIVE StrLess(_, _)
StrLess(s, t) ==
    IF t = <<>> THEN FALSE
    ELSE IF s = <<>> THEN TRUE
    ELSE IF s[1] = t[1] THEN StrLess(Tail(s), Tail(t))
    ELSE Ord(s[1]) < Ord(t[1])

\* sub in s, for two strings.
SubstringOf(sub, s) ==
    \E i \in 0..(Len(s) - Len(sub)) : SubSeq(s, i + 1, i + Len(sub)) = sub

\* sep.join(ss)
RECURSIVE Join(_, _)
Join(sep, ss) ==
    IF ss = <<>> THEN <<>>
    ELSE IF Len(ss) = 1 THEN ss[1]
    ELSE ss[1] \o sep \o Join(sep, Tail(ss))

\* list.sort() on a list of strings.
RECURSIVE InsertSorted(_, _)
InsertSorted(s, x) ==
    IF s = <<>> THEN <<x>>
    ELSE IF StrLess(x, s[1]) THEN <<x>> \o s
    ELSE <<s[1]>> \o InsertSorted(Tail(s), x)

RECURSIVE SortStrings(_)
SortStrings(s) ==
    IF s = <<>> THEN <<>>
    ELSE InsertSorted(SortStrings(SubSeq(s, 1, Len(s) - 1)), s[Len(s)])

\* list.remove(x): the list without the first occurrence of x (x must be in it).
RECURSIVE ListRemove(_, _)
ListRemove(s, x) ==
    IF s = <<>> THEN <<>>
    ELSE IF s[1] = x THEN Tail(s)
    ELSE <<s[1]>> \o ListRemove(Tail(s), x)

\* A Python list index: i is valid for s when -len(s) <= i < len(s).
IndexOK(s, i) == -Len(s) <= i /\ i < Len(s)
\* the 1-based position that the valid Python index i names
Pos(s, i) == IF i < 0 THEN Len(s) + i + 1 ELSE i + 1
\* del s[i]
ListDel(s, i) == SubSeq(s, 1, Pos(s, i) - 1) \o SubSeq(s, Pos(s, i) + 1, Len(s))

Count(s, x) == Cardinality({i \in DOMAIN s : s[i] = x})

(***************************************************************************)
(* Reference types.                                                        *)
(***************************************************************************)
StripChars == {" ", ".", ":", "(", ")"}

\* LitManReference.Strip
Strip(attribute) == SelectSeq(attribute, LAMBDA c : c \notin StripChars)

Underscore == <<"_">>

\* LitManArticle.Label
ArticleLabel(journal, issue, number, year) ==
    Strip(journal) \o Underscore \o issue \o Underscore \o number \o Underscore \o year

\* LitManNote.Label
NoteLabel(name, year) == Strip(name) \o Underscore \o year

\* LitManReference.Initialize: the fields common to all types.
BaseFields(config) ==
    [type |-> config.type,
     category |-> config.category,
     title |-> config.title,
     authors |-> config.authors,
     year |-> config.year,
     tags |-> SortStrings(config.tags \o <<Lower(config.category)>>),
     important |-> config.important,
     printed |-> config.printed,
     read |-> config.read,
     notes |-> <<>>,
     references |-> <<>>,
     citations |-> <<>>]

Extend(f, g) == [x \in (DOMAIN f) \cup (DOMAIN g) |-> IF x \in DOMAIN g THEN g[x] ELSE f[x]]

\* LitManArticle.Initialize
ArticleInitialize(config) ==
    Extend(BaseFields(config),
           [journal |-> config.journal, issue |-> config.issue, number |-> config.number,
            label |-> ArticleLabel(config.journal, config.issue, config.number, config.year)])

\* LitManNote.Initialize
NoteInitialize(config) ==
    Extend(BaseFields(config),
           [name |-> config.name, label |-> NoteLabel(config.name, config.year)])

\* reference_types[config.type] ... Initialize(config)
Initialize(config) ==
    IF config.type = "article" THEN ArticleInitialize(config) ELSE NoteInitialize(config)

(***************************************************************************)
(* The collection: a loaded mapping is the sequence of its entries in      *)
(* insertion order, each entry carrying its key in the field label.        *)
(***************************************************************************)
Keys(db) == {db[i].label : i \in DOMAIN db}
IndexOf(db, label) == CHOOSE i \in DOMAIN db : db[i].label = label
Entry(db, label) == db[IndexOf(db, label)]
Put(db, label, e) == [db EXCEPT ![IndexOf(db, label)] = e]
\* del litman_db[label]
Del(db, label) == SelectSeq(db, LAMBDA e : e.label # label)

\* yaml.safe_load of the file's documents: a later document of the same key
\* replaces the value of the earlier one and keeps its place.
RECURSIVE YamlLoad(_)
YamlLoad(file) ==
    IF file = <<>> THEN <<>>
    ELSE LET rest == YamlLoad(SubSeq(file, 1, Len(file) - 1))
             last == file[Len(file)]
         IN  IF last.label \in Keys(rest) THEN Put(rest, last.label, last)
             ELSE Append(rest, last)

\* LoadDB: the cache is rebuilt from the file by every command that writes
\* the file, so both loads give the same mapping.
LoadDB(file) == YamlLoad(file)
\* yaml.safe_load of an empty file is None, and no other file loads as an
\* empty mapping.
IsNone(db) == db = <<>>

\* yaml.dump writes a mapping sorted by key.
RECURSIVE InsertByLabel(_, _)
InsertByLabel(db, e) ==
    IF db = <<>> THEN <<e>>
    ELSE IF StrLess(e.label, db[1].label) THEN <<e>> \o db
    ELSE <<db[1]>> \o InsertByLabel(Tail(db), e)

RECURSIVE YamlDump(_)
YamlDump(db) ==
    IF db = <<>> THEN <<>>
    ELSE InsertByLabel(YamlDump(SubSeq(db, 1, Len(db) - 1)), db[Len(db)])

\* Resave: the file the command leaves.
Resave(db) == IF Len(db) > 0 THEN YamlDump(db) ELSE <<>>

\* The outcome of a command: the file it leaves and how it ended.
Raise(file, error) == [file |-> file, status |-> error]
Done(file) == [file |-> file, status |-> "ok"]

(***************************************************************************)
(* Add                                                                     *)
(***************************************************************************)
\* Add without the test for an existing label.
AddOutcomeUnchecked(file, config) == Done(Append(file, Initialize(config)))

AddOutcome(file, config) ==
    LET new_ref == Initialize(config)
        db == LoadDB(file)
    IN  IF ~IsNone(db) /\ new_ref.label \in Keys(db)
        THEN Raise(file, "NameError")
        ELSE Done(Append(file, new_ref))

(***************************************************************************)
(* Link                                                                    *)
(***************************************************************************)
AppendReference(db, ref, cite) ==
    Put(db, ref, [Entry(db, ref) EXCEPT !.references = Append(@, cite)])

AppendCitation(db, ref, cite) ==
    Put(db, cite, [Entry(db, cite) EXCEPT !.citations = Append(@, ref)])

LinkOutcome(file, ref, cite) ==
    LET db == LoadDB(file)
    IN  IF IsNone(db) THEN Raise(file, "TypeError")
        ELSE IF ref \notin Keys(db) THEN Raise(file, "ValueError")
        ELSE IF cite \notin Keys(db) THEN Raise(file, "ValueError")
        ELSE Done(Resave(AppendCitation(AppendReference(db, ref, cite), ref, cite)))

(***************************************************************************)
(* Remove                                                                  *)
(***************************************************************************)
RemoveOutcome(file, ref) ==
    LET db == LoadDB(file)
    IN  IF IsNone(db) THEN Raise(file, "TypeError")
        ELSE IF ref \notin Keys(db) THEN Raise(file, "KeyError")
        ELSE Done(Resave(Del(db, ref)))

(***************************************************************************)
(* Edit: the sub-edits run in the order of the code on the loaded mapping; *)
(* the first exception ends the command before Resave.                     *)
(***************************************************************************)
Ok(db) == [db |-> db, err |-> "ok"]
Fail(db, error) == [db |-> db, err |-> error]

\* ref["tags"].append(config.add_tag); ref["tags"].sort()
EditAddTag(st, config) ==
    IF st.err # "ok" \/ config.add_tag = None THEN st
    ELSE Ok(Put(st.db, config.ref,
                [Entry(st.db, config.ref) EXCEPT
                    !.tags = SortStrings(Append(@, Val(config.add_tag)))]))

\* ref["tags"].remove(config.rm_tag)
EditRmTag(st, config) ==
    IF st.err # "ok" \/ config.rm_tag = None THEN st
    ELSE IF Val(config.rm_tag) \notin Range(Entry(st.db, config.ref).tags)
    THEN Fail(st.db, "ValueError")
    ELSE Ok(Put(st.db, config.ref,
                [Entry(st.db, config.ref) EXCEPT !.tags = ListRemove(@, Val(config.rm_tag))]))

\* del ref["notes"][config.rm_note]
EditRmNote(st, config) ==
    IF st.err # "ok" \/ config.rm_note = None THEN st
    ELSE IF ~IndexOK(Entry(st.db, config.ref).notes, Val(config.rm_note))
    THEN Fail(st.db, "IndexError")
    ELSE Ok(Put(st.db, config.ref,
                [Entry(st.db, config.ref) EXCEPT !.notes = ListDel(@, Val(config.rm_note))]))

\* ref["references"].remove(cited['label'])
RemoveReference(db, ref, label) ==
    Put(db, ref, [Entry(db, ref) EXCEPT !.references = ListRemove(@, label)])

\* an unlink that forgets the other side
RemoveCitationForgotten(db, label, ref) == db

\* cited["citations"].remove(config.ref)
RemoveCitation(db, label, ref) ==
    Put(db, label, [Entry(db, label) EXCEPT !.citations = ListRemove(@, ref)])

\* the rm_ref block
EditRmRef(st, config) ==
    IF st.err # "ok" \/ config.rm_ref = None THEN st
    ELSE LET refs == Entry(st.db, config.ref).references
             i == Val(config.rm_ref)
         IN  IF ~IndexOK(refs, i) THEN Fail(st.db, "IndexError")
             ELSE LET label == refs[Pos(refs, i)]
                  IN  IF label \notin Keys(st.db) THEN Fail(st.db, "KeyError")
                      ELSE LET db1 == RemoveReference(st.db, config.ref, label)
                           IN  IF config.ref \notin Range(Entry(db1, label).citations)
                               THEN Fail(db1, "ValueError")
                               ELSE Ok(RemoveCitation(db1, label, config.ref))

\* the rm_cite block
EditRmCite(st, config) ==
    IF st.err # "ok" \/ config.rm_cite = None THEN st
    ELSE LET cites == Entry(st.db, config.ref).citations
             i == Val(config.rm_cite)
         IN  IF ~IndexOK(cites, i) THEN Fail(st.db, "IndexError")
             ELSE LET label == cites[Pos(cites, i)]
                  IN  IF label \notin Keys(st.db) THEN Fail(st.db, "KeyError")
                      ELSE LET db1 == RemoveCitation(st.db, config.ref, label)
                           IN  IF config.ref \notin Range(Entry(db1, label).references)
                               THEN Fail(db1, "ValueError")
                               ELSE Ok(RemoveReference(db1, label, config.ref))

\* Edit writing what it has changed when a sub-edit raises
EditOutcomeSavingPartial(file, config) ==
    LET db == LoadDB(file)
    IN  IF IsNone(db) THEN Raise(file, "TypeError")
        ELSE IF config.ref \notin Keys(db) THEN Raise(file, "ValueError")
        ELSE LET st == EditRmCite(EditRmRef(EditRmNote(EditRmTag(EditAddTag(
                           Ok(db), config), config), config), config), config)
             IN  IF st.err = "ok" THEN Done(Resave(st.db)) ELSE Raise(Resave(st.db), st.err)

EditOutcome(file, config) ==
    LET db == LoadDB(file)
    IN  IF IsNone(db) THEN Raise(file, "TypeError")
        ELSE IF config.ref \notin Keys(db) THEN Raise(file, "ValueError")
        ELSE LET st == EditRmCite(EditRmRef(EditRmNote(EditRmTag(EditAddTag(
                           Ok(db), config), config), config), config), config)
             IN  IF st.err = "ok" THEN Done(Resave(st.db)) ELSE Raise(file, st.err)

(***************************************************************************)
(* Winnow: the entries a list or open command selects.  config holds the   *)
(* options of the command's parser: open has no authors, category,         *)
(* important, to_read and read.                                            *)
(***************************************************************************)
\* [e for i,e in enumerate(entries) if i not in remove]
RECURSIVE WithoutIndexes(_, _, _)
WithoutIndexes(es, remove, i) ==
    IF i > Len(es) THEN <<>>
    ELSE (IF i \in remove THEN <<>> ELSE <<es[i]>>) \o WithoutIndexes(es, remove, i + 1)

\* [e for i,e in enumerate(entries) if i in keep]
OnlyIndexes(es, keep) == WithoutIndexes(es, (DOMAIN es) \ keep, 1)

\* str(entry['year']): every option of the add parser that is not a list or
\* a flag is read as a str, so the year is stored as text.
StrYear(year) == year

\* the test of a term without the year
TermMatchesNoYear(term, entry) ==
    \/ SubstringOf(Lower(term), Lower(entry.title))
    \/ Lower(term) \in {Lower(t) : t \in Range(entry.tags)}
    \/ SubstringOf(Lower(term), Join(<<" ">>, [i \in DOMAIN entry.authors |-> Lower(entry.authors[i])]))
    \/ ("journal" \in DOMAIN entry /\ SubstringOf(Lower(term), Lower(entry.journal)))

\* the test of one search term against one entry
TermMatches(term, entry) ==
    \/ SubstringOf(Lower(term), Lower(entry.title))
    \/ Lower(term) \in {Lower(t) : t \in Range(entry.tags)}
    \/ SubstringOf(Lower(term), Join(<<" ">>, [i \in DOMAIN entry.authors |-> Lower(entry.authors[i])]))
    \/ ("journal" \in DOMAIN entry /\ SubstringOf(Lower(term), Lower(entry.journal)))
    \/ SubstringOf(term, StrYear(entry.year))

SearchStage(es, config) ==
    IF config.search # None
    THEN WithoutIndexes(es, {i \in DOMAIN es :
                                \E k \in DOMAIN Val(config.search) :
                                    ~TermMatches(Val(config.search)[k], es[i])}, 1)
    ELSE es

\* an authors filter that keeps an entry with any one of the authors
AuthorsStageAny(es, config) ==
    IF "authors" \in DOMAIN config /\ config.authors # None
    THEN WithoutIndexes(es, {i \in DOMAIN es :
                                \A k \in DOMAIN Val(config.authors) :
                                    Val(config.authors)[k] \notin Range(es[i].authors)}, 1)
    ELSE es

AuthorsStage(es, config) ==
    IF "authors" \in DOMAIN config /\ config.authors # None
    THEN WithoutIndexes(es, {i \in DOMAIN es :
                                \E k \in DOMAIN Val(config.authors) :
                                    Val(config.authors)[k] \notin Range(es[i].authors)}, 1)
    ELSE es

ImportantStage(es, config) ==
    IF "important" \in DOMAIN config /\ config.important
    THEN OnlyIndexes(es, {i \in DOMAIN es : es[i].important})
    ELSE es

ToReadStage(es, config) ==
    IF "to_read" \in DOMAIN config /\ config.to_read
    THEN OnlyIndexes(es, {i \in DOMAIN es : ~es[i].read})
    ELSE es

ReadStage(es, config) ==
    IF "read" \in DOMAIN config /\ config.read
    THEN OnlyIndexes(es, {i \in DOMAIN es : es[i].read})
    ELSE es

Stage(name, es, config) ==
    CASE name = "search" -> SearchStage(es, config)
      [] name = "authors" -> AuthorsStage(es, config)
      [] name = "important" -> ImportantStage(es, config)
      [] name = "to_read" -> ToReadStage(es, config)
      [] name = "read" -> ReadStage(es, config)

RECURSIVE ApplyStages(_, _, _)
ApplyStages(order, es, config) ==
    IF order = <<>> THEN es
    ELSE ApplyStages(Tail(order), Stage(Head(order), es, config), config)

\* the order of the filters in Winnow
WinnowOrder == <<"search", "authors", "important", "to_read", "read">>

\* a Winnow that starts from the whole collection whatever config.ref says
StartingEntriesAll(db, config) == db

\* the entries Winnow starts from: all of them, or those config.ref names
StartingEntries(db, config) ==
    IF config.ref # None
    THEN [k \in DOMAIN Val(config.ref) |-> Entry(db, Val(config.ref)[k])]
    ELSE db

WinnowOutcome(db, config) ==
    IF IsNone(db) THEN [status |-> "ok", entries |-> <<>>]
    ELSE IF config.ref # None /\ ~(Range(Val(config.ref)) \subseteq Keys(db))
    THEN [status |-> "ValueError", entries |-> <<>>]
    ELSE [status |-> "ok",
          entries |-> ApplyStages(WinnowOrder, StartingEntries(db, config), config)]

(***************************************************************************)
(* Inputs of the commands.                                                 *)
(***************************************************************************)
sPdotR == <<"P", ".", "R">>
s1 == <<"1">>
s2 == <<"2">>
s20 == <<"2", "0">>
s21 == <<"2", "1">>
sA == <<"A">>
sB == <<"B">>
sJD == <<"J", " ", "D">>
sR == <<"R">>

ArticleConfig(journal, year, title) ==
    [type |-> "article", category |-> sA, title |-> title, authors |-> <<sJD>>,
     year |-> year, tags |-> <<sR>>, important |-> FALSE, printed |-> FALSE, read |-> FALSE,
     journal |-> journal, issue |-> s1, number |-> s2]

\* Three articles: the first two differ in the title only and so have the
\* same label, the third differs from the first in the year only.
AddConfigs ==
    {ArticleConfig(sPdotR, s20, sA), ArticleConfig(sPdotR, s20, sB),
     ArticleConfig(sPdotR, s21, sA)}

Labels == {Initialize(c).label : c \in AddConfigs}

\* an index for rm_ref / rm_cite: from -1 to the last index of the longest list
Indexes == {Some(i) : i \in -1..(MaxLinks - 1)}

EditConfig(ref, rm_ref, rm_cite) ==
    [ref |-> ref, add_tag |-> None, rm_tag |-> None, rm_note |-> None,
     rm_ref |-> rm_ref, rm_cite |-> rm_cite]

\* Edit with rm_ref alone, with rm_cite alone, or with both at index 0
UnlinkConfigs ==
    {EditConfig(l, r, None) : l \in Labels, r \in Indexes}
    \cup {EditConfig(l, None, c) : l \in Labels, c \in Indexes}
    \cup {EditConfig(l, Some(0), Some(0)) : l \in Labels}

(***************************************************************************)
(* The commands as actions.                                                *)
(***************************************************************************)
Finish(command, out) ==
    /\ before' = litman_db
    /\ cmd' = command
    /\ status' = out.status
    /\ litman_db' = out.file

RECURSIVE SumLen(_, _)
SumLen(file, field) ==
    IF file = <<>> THEN 0 ELSE Len(file[1][field]) + SumLen(Tail(file), field)

WithinBounds(file) ==
    /\ Len(file) <= MaxEntries
    /\ SumLen(file, "references") <= MaxLinks
    /\ SumLen(file, "citations") <= MaxLinks

Add(config) ==
    /\ WithinBounds(AddOutcome(litman_db, config).file)
    /\ Finish([name |-> "add", config |-> config], AddOutcome(litman_db, config))
    /\ UNCHANGED <<entries, saved, earlier>>

Link(ref, cite) ==
    /\ WithinBounds(LinkOutcome(litman_db, ref, cite).file)
    /\ Finish([name |-> "link", ref |-> ref, cite |-> cite], LinkOutcome(litman_db, ref, cite))
    /\ UNCHANGED <<entries, saved, earlier>>

Edit(config) ==
    /\ Finish([name |-> "edit", config |-> config], EditOutcome(litman_db, config))
    /\ UNCHANGED <<entries, saved, earlier>>

Remove(ref) ==
    /\ Finish([name |-> "remove", ref |-> ref], RemoveOutcome(litman_db, ref))
    /\ UNCHANGED <<entries, saved, earlier>>

Init ==
    /\ litman_db = <<>>
    /\ before = <<>>
    /\ cmd = [name |-> "init"]
    /\ status = "ok"
    /\ entries = <<>>
    /\ saved = [step |-> 0, db |-> <<>>, ref |-> <<>>, cite |-> <<>>]
    /\ earlier = [step |-> 0, status |-> "ok", entries |-> <<>>]

Next ==
    \/ \E config \in AddConfigs : Add(config)
    \/ \E ref \in Labels, cite \in Labels : Link(ref, cite)
    \/ \E config \in UnlinkConfigs : Edit(config)
    \/ \E ref \in Labels : Remove(ref)

Spec == Init /\ [][Next]_vars

(***************************************************************************)
(* Link followed by an unlink at index 0.  Populate runs any command of    *)
(* Spec without recording it; LinkThen records the collection before a     *)
(* successful Link, and ThenUnlink runs Edit(ref, rm_ref=0) right after.   *)
(***************************************************************************)
Outcomes(file) ==
    {AddOutcome(file, config) : config \in AddConfigs}
    \cup {LinkOutcome(file, ref, cite) : ref \in Labels, cite \in Labels}
    \cup {EditOutcome(file, config) : config \in UnlinkConfigs}
    \cup {RemoveOutcome(file, ref) : ref \in Labels}

Populate ==
    /\ saved.step = 0
    /\ \E out \in Outcomes(litman_db) :
        /\ WithinBounds(out.file)
        /\ litman_db' = out.file
    /\ UNCHANGED <<before, cmd, status, entries, saved, earlier>>

LinkThen(ref, cite) ==
    /\ saved.step = 0
    /\ LinkOutcome(litman_db, ref, cite).status = "ok"
    /\ WithinBounds(LinkOutcome(litman_db, ref, cite).file)
    /\ Finish([name |-> "link", ref |-> ref, cite |-> cite], LinkOutcome(litman_db, ref, cite))
    /\ saved' = [step |-> 1, db |-> litman_db, ref |-> ref, cite |-> cite]
    /\ UNCHANGED <<entries, earlier>>

ThenUnlink ==
    /\ saved.step = 1
    /\ Finish([name |-> "edit", config |-> EditConfig(saved.ref, Some(0), None)],
              EditOutcome(litman_db, EditConfig(saved.ref, Some(0), None)))
    /\ saved' = [saved EXCEPT !.step = 2]
    /\ UNCHANGED <<entries, earlier>>

NextRoundTrip ==
    \/ Populate
    \/ \E ref \in Labels, cite \in Labels : LinkThen(ref, cite)
    \/ ThenUnlink

SpecRoundTrip == Init /\ [][NextRoundTrip]_vars

(***************************************************************************)
(* Queries.  The collection is built by Add from two articles and a note   *)
(* that differ in important and read; a run ends with one list or open     *)
(* command, which leaves the collection as it is.                          *)
(***************************************************************************)
sAB == <<"A", "B">>
sTD == <<"T", "D">>
sD == <<"D">>
sT == <<"T">>

QueryArticle(title, authors, year, important, read) ==
    [type |-> "article", category |-> sTD, title |-> title, authors |-> authors,
     year |-> year, tags |-> <<sR>>, important |-> important, printed |-> FALSE,
     read |-> read, journal |-> sPdotR, issue |-> s1, number |-> s2]

QueryNote(important, read) ==
    [type |-> "note", category |-> sD, title |-> sA, authors |-> <<sD>>,
     year |-> s20, tags |-> <<sR>>, important |-> important, printed |-> FALSE,
     read |-> read, name |-> sR]

QueryAddConfigs ==
    {QueryArticle(sAB, <<sJD, sB>>, s20, i, r) : i \in BOOLEAN, r \in BOOLEAN}
    \cup {QueryArticle(sB, <<sJD>>, s21, TRUE, r) : r \in BOOLEAN}
    \cup {QueryNote(FALSE, FALSE)}

LabelX == ArticleLabel(sPdotR, s1, s2, s20)
LabelY == ArticleLabel(sPdotR, s1, s2, s21)
LabelZ == NoteLabel(sR, s20)

\* --search: a title in lower case, a tag in the other case, a part of a
\* tag, the end of one author and the start of the next, the journal in
\* lower and in upper case, a year, and two terms
SearchOptions ==
    {None, Some(<<Lower(sAB)>>), Some(<<sTD>>), Some(<<sT>>), Some(<<<<"d", " ", "b">>>>),
     Some(<<Lower(sPdotR)>>), Some(<<sPdotR>>), Some(<<s20>>), Some(<<s20, Lower(sAB)>>)}

\* --ref: labels in another order than the stored one and one twice, one label
RefOptions == {None, Some(<<LabelY, LabelX, LabelY>>), Some(<<LabelZ>>), Some(<<LabelX>>)}

\* --authors: one author, two authors, an author in lower case
AuthorsOptions == {None, Some(<<sJD>>), Some(<<sB, sJD>>), Some(<<Lower(sJD)>>)}

\* --category
CategoryOptions == {None, Some(<<sTD>>)}

ListConfig(ref, search, authors, category, important, to_read, read) ==
    [ref |-> ref, search |-> search, authors |-> authors, category |-> category,
     important |-> important, to_read |-> to_read, read |-> read]

\* list: every search with every ref, and every other option with two
\* searches and two refs
ListConfigs ==
    {ListConfig(ref, search, None, None, FALSE, FALSE, FALSE) :
        ref \in RefOptions, search \in SearchOptions}
    \cup {ListConfig(ref, search, authors, category, i, t, r) :
            ref \in {None, Some(<<LabelY, LabelX, LabelY>>)},
            search \in {None, Some(<<s20>>)},
            authors \in AuthorsOptions, category \in CategoryOptions,
            i \in BOOLEAN, t \in BOOLEAN, r \in BOOLEAN}

\* open: search, ref and all only
OpenConfigs ==
    {[ref |-> ref, search |-> search, all |-> FALSE] :
        ref \in {None, Some(<<LabelZ>>)}, search \in {None, Some(<<s20>>)}}

IsQuery == cmd.name \in {"list", "open"}

Answer(name, config, out) ==
    /\ before' = litman_db
    /\ cmd' = [name |-> name, config |-> config]
    /\ status' = out.status
    /\ entries' = out.entries

\* List: the entries Winnow gives for the options of the list command
List(config) ==
    /\ ~IsQuery
    /\ Answer("list", config, WinnowOutcome(LoadDB(litman_db), config))
    /\ UNCHANGED <<litman_db, saved, earlier>>

\* Open: the entries Winnow gives for the options of the open command
Open(config) ==
    /\ ~IsQuery
    /\ Answer("open", config, WinnowOutcome(LoadDB(litman_db), config))
    /\ UNCHANGED <<litman_db, saved, earlier>>

\* an Add that succeeds, before the query
AddForQuery(config) ==
    /\ ~IsQuery
    /\ AddOutcome(litman_db, config).status = "ok"
    /\ Add(config)

NextWinnow ==
    \/ \E config \in QueryAddConfigs : AddForQuery(config)
    \/ \E config \in ListConfigs : List(config)
    \/ \E config \in OpenConfigs : Open(config)

SpecWinnow == Init /\ [][NextWinnow]_vars

(***************************************************************************)
(* A query asked twice: the second list or open command has the options of *)
(* the first and runs on the file the first one left.                      *)
(***************************************************************************)
\* a query that rewrites the file as Resave does
QueryFileResaved(file) == Resave(LoadDB(file))

\* List and Open: the file after the command; neither calls Resave
QueryFile(file) == file

Ask(name, config) ==
    /\ ~IsQuery
    /\ Answer(name, config, WinnowOutcome(LoadDB(litman_db), config))
    /\ litman_db' = QueryFile(litman_db)
    /\ UNCHANGED <<saved, earlier>>

AskAgain ==
    /\ IsQuery
    /\ earlier.step = 0
    /\ Answer(cmd.name, cmd.config, WinnowOutcome(LoadDB(litman_db), cmd.config))
    /\ litman_db' = QueryFile(litman_db)
    /\ earlier' = [step |-> 1, status |-> status, entries |-> entries]
    /\ UNCHANGED saved

NextRequery ==
    \/ \E config \in QueryAddConfigs : AddForQuery(config)
    \/ \E config \in ListConfigs : Ask("list", config)
    \/ \E config \in OpenConfigs : Ask("open", config)
    \/ AskAgain

SpecRequery == Init /\ [][NextRequery]_vars

(***************************************************************************)
(* Mark                                                                    *)
(***************************************************************************)
\* the assignments of Mark with to_read looked at after read
MarkFlagsToReadLast(ref, config) ==
    LET e1 == IF config.important THEN [ref EXCEPT !.important = TRUE] ELSE ref
        e2 == IF config.printed THEN [e1 EXCEPT !.printed = TRUE] ELSE e1
        e3 == IF config.read THEN [e2 EXCEPT !.read = TRUE] ELSE e2
    IN  IF config.to_read THEN [e3 EXCEPT !.read = FALSE] ELSE e3

\* the four assignments of Mark to the entry, in the order of the code
MarkFlags(ref, config) ==
    LET e1 == IF config.important THEN [ref EXCEPT !.important = TRUE] ELSE ref
        e2 == IF config.printed THEN [e1 EXCEPT !.printed = TRUE] ELSE e1
        e3 == IF config.to_read THEN [e2 EXCEPT !.read = FALSE] ELSE e2
    IN  IF config.read THEN [e3 EXCEPT !.read = TRUE] ELSE e3

MarkOutcome(file, config) ==
    LET db == LoadDB(file)
    IN  IF IsNone(db) THEN Raise(file, "TypeError")
        ELSE IF config.ref \notin Keys(db) THEN Raise(file, "ValueError")
        ELSE Done(Resave(Put(db, config.ref, MarkFlags(Entry(db, config.ref), config))))

\* Two articles for Mark: the first with every value of important and read
MarkAddConfigs ==
    {QueryArticle(sAB, <<sJD>>, s20, i, r) : i \in BOOLEAN, r \in BOOLEAN}
    \cup {QueryArticle(sB, <<sJD>>, s21, FALSE, FALSE)}

\* mark: the four flags of the parser, each given or not
MarkConfigs ==
    {[ref |-> ref, important |-> i, printed |-> p, to_read |-> t, read |-> r] :
        ref \in {LabelX, LabelY}, i \in BOOLEAN, p \in BOOLEAN, t \in BOOLEAN, r \in BOOLEAN}

Mark(config) ==
    /\ Finish([name |-> "mark", config |-> config], MarkOutcome(litman_db, config))
    /\ UNCHANGED <<entries, saved, earlier>>

NextMark ==
    \/ \E config \in MarkAddConfigs : Add(config)
    \/ \E config \in MarkConfigs : Mark(config)

SpecMark == Init /\ [][NextMark]_vars

(***************************************************************************)
(* Edit of the tags: add_tag and rm_tag on two articles of category "A",   *)
(* created with the tags ["R", "a"].                                       *)
(***************************************************************************)
MaxTags == 3        \* tags of an entry (guard of EditTags)

TagAddConfigs == {ArticleConfig(sPdotR, s20, sA), ArticleConfig(sPdotR, s21, sA)}

TagLabels == {Initialize(c).label : c \in TagAddConfigs}

\* --add_tag / --rm_tag: the category in lower case, the tag given to Add,
\* and a tag no entry is created with
TagOptions == {None, Some(Lower(sA)), Some(sR), Some(Lower(sB))}

TagConfigs ==
    {[ref |-> ref, add_tag |-> add_tag, rm_tag |-> rm_tag, rm_note |-> None,
      rm_ref |-> None, rm_cite |-> None] :
        ref \in TagLabels, add_tag \in TagOptions, rm_tag \in TagOptions}

TagsWithinBounds(file) == \A i \in DOMAIN file : Len(file[i].tags) <= MaxTags

EditTags(config) ==
    /\ TagsWithinBounds(EditOutcome(litman_db, config).file)
    /\ Edit(config)

NextTags ==
    \/ \E config \in TagAddConfigs : Add(config)
    \/ \E config \in TagConfigs : EditTags(config)

SpecTags == Init /\ [][NextTags]_vars

(***************************************************************************)
(* Note                                                                    *)
(***************************************************************************)
NoteOutcome(file, config) ==
    LET db == LoadDB(file)
    IN  IF IsNone(db) THEN Raise(file, "TypeError")
        ELSE IF config.ref \notin Keys(db) THEN Raise(file, "ValueError")
        ELSE Done(Resave(Put(db, config.ref,
                             [Entry(db, config.ref) EXCEPT !.notes = @ \o config.note])))

Note(config) ==
    /\ Finish([name |-> "note", config |-> config], NoteOutcome(litman_db, config))
    /\ UNCHANGED <<entries, saved, earlier>>

(***************************************************************************)
(* One Edit of a collection with notes and links.  The collection is built *)
(* by Add, Note, Link and Remove on two articles (Remove leaves the links  *)
(* to the removed entry in place, and a later Add of the same article does *)
(* not restore the other side); a run ends with one Edit command, which    *)
(* combines sub-edits or removes by one index.                             *)
(***************************************************************************)
MaxListLen == 1     \* notes of an entry and links in the collection (guards of NoteForEdit, LinkForEdit)

\* --note: one note
NoteConfigs == {[ref |-> ref, note |-> <<sB>>] : ref \in TagLabels}

\* an index for rm_note, rm_ref or rm_cite: the valid Python indexes of the
\* longest list and one more at each end
IndexOptions == {Some(i) : i \in (-MaxListLen - 1)..MaxListLen}

\* Edit with any combination of add_tag, rm_tag and the three removals at index 0
CombinedConfigs ==
    {[ref |-> ref, add_tag |-> add_tag, rm_tag |-> rm_tag, rm_note |-> rm_note,
      rm_ref |-> rm_ref, rm_cite |-> rm_cite] :
        ref \in TagLabels, add_tag \in {None, Some(Lower(sB))},
        rm_tag \in {None, Some(Lower(sA)), Some(Lower(sB))},
        rm_note \in {None, Some(0)}, rm_ref \in {None, Some(0)}, rm_cite \in {None, Some(0)}}

\* Edit with one removal by index and nothing else
IndexConfigs ==
    {[ref |-> ref, add_tag |-> None, rm_tag |-> None, rm_note |-> i,
      rm_ref |-> None, rm_cite |-> None] : ref \in TagLabels, i \in IndexOptions}
    \cup {EditConfig(ref, i, None) : ref \in TagLabels, i \in IndexOptions}
    \cup {EditConfig(ref, None, i) : ref \in TagLabels, i \in IndexOptions}

IsEdit == cmd.name = "edit"

ListsWithinBounds(file) ==
    /\ \A i \in DOMAIN file : Len(file[i].notes) <= MaxListLen
    /\ SumLen(file, "references") <= MaxListLen
    /\ SumLen(file, "citations") <= MaxListLen

AddForEdit(config) ==
    /\ ~IsEdit
    /\ AddOutcome(litman_db, config).status = "ok"
    /\ Add(config)

NoteForEdit(config) ==
    /\ ~IsEdit
    /\ NoteOutcome(litman_db, config).status = "ok"
    /\ ListsWithinBounds(NoteOutcome(litman_db, config).file)
    /\ Note(config)

LinkForEdit(ref, cite) ==
    /\ ~IsEdit
    /\ LinkOutcome(litman_db, ref, cite).status = "ok"
    /\ ListsWithinBounds(LinkOutcome(litman_db, ref, cite).file)
    /\ Link(ref, cite)

RemoveForEdit(ref) ==
    /\ ~IsEdit
    /\ RemoveOutcome(litman_db, ref).status = "ok"
    /\ Remove(ref)

EditOnce(config) ==
    /\ ~IsEdit
    /\ Edit(config)

NextEdit ==
    \/ \E config \in TagAddConfigs : AddForEdit(config)
    \/ \E config \in NoteConfigs : NoteForEdit(config)
    \/ \E ref \in TagLabels, cite \in TagLabels : LinkForEdit(ref, cite)
    \/ \E ref \in TagLabels : RemoveForEdit(ref)
    \/ \E config \in CombinedConfigs \cup IndexConfigs : EditOnce(config)

SpecEdit == Init /\ [][NextEdit]_vars

(***************************************************************************)
(* Properties of the link graph and of Add.                                *)
(***************************************************************************)
References(db, label) == Entry(db, label).references
Citations(db, label) == Entry(db, label).citations

LinkedLabels(db) ==
    UNION {Range(db[i].references) \cup Range(db[i].citations) : i \in DOMAIN db}

\* C1: every label in a references or citations list is a key of the
\* collection; a Remove that succeeds leaves no entry holding the removed
\* label, and a Remove that fails leaves the collection unchanged.
ReferentialIntegrity ==
    /\ LinkedLabels(litman_db) \subseteq Keys(litman_db)
    /\ (cmd.name = "remove" /\ status = "ok") => cmd.ref \notin LinkedLabels(litman_db)
    /\ (cmd.name = "remove" /\ status # "ok") => litman_db = before

\* C2: for all entries A and B of the collection, B's label occurs in
\* A.references as often as A's label occurs in B.citations.
MirrorSymmetry ==
    \A i \in DOMAIN litman_db, j \in DOMAIN litman_db :
        Count(litman_db[i].references, litman_db[j].label)
            = Count(litman_db[j].citations, litman_db[i].label)

\* C3 as stated: after Link(A, B) and then Edit(A, rm_ref=0), A.references
\* and B.citations are the sequences they were before the Link, whatever
\* they held.
LinkUnlinkRestores ==
    saved.step = 2 =>
        /\ status = "ok"
        /\ References(litman_db, saved.ref) = References(saved.db, saved.ref)
        /\ Citations(litman_db, saved.cite) = Citations(saved.db, saved.cite)

\* C3 as amended: when A.references is empty before the Link, Link(A, B)
\* and then Edit(A, rm_ref=0) succeed and leave A.references empty again
\* and B.citations with the same labels in the same numbers; B.citations
\* is the same sequence when it did not hold A's label before the Link.
LinkUnlinkRestoresFromEmpty ==
    (saved.step = 2 /\ References(saved.db, saved.ref) = <<>>) =>
        /\ status = "ok"
        /\ References(litman_db, saved.ref) = <<>>
        /\ \A l \in Labels :
            Count(Citations(litman_db, saved.cite), l)
                = Count(Citations(saved.db, saved.cite), l)
        /\ saved.ref \notin Range(Citations(saved.db, saved.cite))
            => Citations(litman_db, saved.cite) = Citations(saved.db, saved.cite)

\* C3 witness: a Link from an entry without references to an entry that
\* already had a citation, undone by the unlink.
LinkUnlinkWitness ==
    /\ saved.step = 2
    /\ status = "ok"
    /\ References(saved.db, saved.ref) = <<>>
    /\ Citations(saved.db, saved.cite) # <<>>
    /\ References(before, saved.ref) = <<saved.cite>>
    /\ Citations(litman_db, saved.cite) = Citations(saved.db, saved.cite)

\* The last command was a successful Edit with rm_ref (rm_cite) alone, at an
\* index from 0 to the last index of the list.
IsUnlink(field, list) ==
    /\ cmd.name = "edit"
    /\ status = "ok"
    /\ cmd.config[field] # None
    /\ \A other \in {"rm_ref", "rm_cite"} \ {field} : cmd.config[other] = None
    /\ Val(cmd.config[field]) \in 0..(Len(Entry(before, cmd.config.ref)[list]) - 1)

\* C4: an Edit with rm_ref=i (or rm_cite=i) alone, 0 <= i < length of the
\* list, that succeeds removes the element at position i of references (citations), keeps the others in
\* order, and removes one occurrence of the entry's label from the
\* citations (references) of the entry named at position i.
PositionalUnlink ==
    /\ IsUnlink("rm_ref", "references") =>
        LET refs == References(before, cmd.config.ref)
            i == Val(cmd.config.rm_ref)
            other == refs[Pos(refs, i)]
        IN  /\ References(litman_db, cmd.config.ref) = ListDel(refs, i)
            /\ Count(Citations(litman_db, other), cmd.config.ref)
                = Count(Citations(before, other), cmd.config.ref) - 1
    /\ IsUnlink("rm_cite", "citations") =>
        LET cites == Citations(before, cmd.config.ref)
            i == Val(cmd.config.rm_cite)
            other == cites[Pos(cites, i)]
        IN  /\ Citations(litman_db, cmd.config.ref) = ListDel(cites, i)
            /\ Count(References(litman_db, other), cmd.config.ref)
                = Count(References(before, other), cmd.config.ref) - 1

\* C5: a Link whose ref or cite is not a key of the collection ends with
\* the not-found error (ValueError) and leaves the collection unchanged.
LinkNotFound ==
    (cmd.name = "link" /\ (cmd.ref \notin Keys(before) \/ cmd.cite \notin Keys(before))) =>
        /\ status = "ValueError"
        /\ litman_db = before

SameArticle(config, e) ==
    /\ e.type = "article"
    /\ e.journal = config.journal
    /\ e.issue = config.issue
    /\ e.number = config.number
    /\ e.year = config.year

\* C6: no two entries of the collection have the same label; an Add of an
\* article with the journal, issue, number and year of an entry of the
\* collection, or with any label that is a key already, ends with the
\* duplicate error (NameError) and leaves every entry as it was; an Add that
\* succeeds appends one entry under the label derived from these four fields.
LabelUniqueOnAdd ==
    /\ \A i \in DOMAIN litman_db, j \in DOMAIN litman_db :
        litman_db[i].label = litman_db[j].label => i = j
    /\ cmd.name = "add" =>
        LET config == cmd.config
            label == ArticleLabel(config.journal, config.issue, config.number, config.year)
        IN  IF label \in Keys(before) \/ \E i \in DOMAIN before : SameArticle(config, before[i])
            THEN status = "NameError" /\ litman_db = before
            ELSE /\ status = "ok"
                 /\ Len(litman_db) = Len(before) + 1
                 /\ SubSeq(litman_db, 1, Len(before)) = before
                 /\ litman_db[Len(litman_db)].label = label

\* C6 witness: an Add refused although its title differs from the title of
\* the entry that has its label.
DuplicateAddWitness ==
    /\ cmd.name = "add"
    /\ status = "NameError"
    /\ Len(before) = MaxEntries
    /\ \E i \in DOMAIN before :
        SameArticle(cmd.config, before[i]) /\ before[i].title # cmd.config.title

(***************************************************************************)
(* Properties of Winnow.                                                   *)
(***************************************************************************)
\* a query that Winnow answered from a collection that is not empty
Answered == IsQuery /\ status = "ok" /\ ~IsNone(before)

Requested(config, flag) == flag \in DOMAIN config /\ config[flag]
Given(config, option) == option \in DOMAIN config /\ config[option] # None

\* the sequence a query starts from: the collection in stored order, or the
\* entries of the requested labels in the requested order
QueryStart ==
    IF cmd.config.ref = None THEN before
    ELSE [k \in DOMAIN Val(cmd.config.ref) |->
            CHOOSE e \in Range(before) : e.label = Val(cmd.config.ref)[k]]

\* the sequences that hold every element of a set once
RECURSIVE Orders(_)
Orders(S) ==
    IF S = {} THEN {<<>>}
    ELSE UNION {{<<x>> \o rest : rest \in Orders(S \ {x})} : x \in S}

\* the filters a query asks for
ActiveStages(config) ==
    {name \in {"search", "authors"} : Given(config, name)}
    \cup {name \in {"important", "to_read", "read"} : Requested(config, name)}

SatisfiesAll(config, e) ==
    /\ Given(config, "search") =>
        \A k \in DOMAIN Val(config.search) : TermMatches(Val(config.search)[k], e)
    /\ Given(config, "authors") =>
        \A k \in DOMAIN Val(config.authors) :
            \E a \in DOMAIN e.authors : e.authors[a] = Val(config.authors)[k]
    /\ Requested(config, "important") => e.important
    /\ Requested(config, "to_read") => ~e.read
    /\ Requested(config, "read") => e.read

\* C7: the result of Winnow is the starting sequence (the collection in
\* stored order, or the requested labels in the requested order) without
\* the entries that fail an active criterion, in the same order, and every
\* order of the filters asked for gives the same result.
WinnowConjunction ==
    Answered =>
        /\ entries = SelectSeq(QueryStart, LAMBDA e : SatisfiesAll(cmd.config, e))
        /\ \A order \in Orders(ActiveStages(cmd.config)) :
            ApplyStages(order, StartingEntries(before, cmd.config), cmd.config) = entries

\* C7 witness: a list command with labels, a search term, an author and
\* to_read that keeps some of the requested entries and drops others.
WinnowConjunctionWitness ==
    /\ Answered
    /\ cmd.name = "list"
    /\ cmd.config.ref # None
    /\ cmd.config.search # None
    /\ cmd.config.authors # None
    /\ cmd.config.to_read
    /\ entries # <<>>
    /\ Len(entries) < Len(QueryStart)

\* C8: when categories are listed, every entry of the result has its
\* category among them.
CategoryFilter ==
    (Answered /\ Given(cmd.config, "category")) =>
        \A i \in DOMAIN entries : entries[i].category \in Range(Val(cmd.config.category))

\* what C9 says of one term and one entry; foldJournal: whether the journal
\* is compared without regard to case
TermRule(term, e, foldJournal) ==
    \/ SubstringOf(Lower(term), Lower(e.title))
    \/ \E t \in DOMAIN e.tags : Lower(e.tags[t]) = Lower(term)
    \/ SubstringOf(Lower(term), Lower(Join(<<" ">>, e.authors)))
    \/ /\ "journal" \in DOMAIN e
       /\ IF foldJournal THEN SubstringOf(Lower(term), Lower(e.journal))
          ELSE SubstringOf(term, e.journal)
    \/ SubstringOf(term, e.year)

SearchOnly(config) ==
    /\ Given(config, "search")
    /\ ~Given(config, "authors")
    /\ \A flag \in {"important", "to_read", "read"} : ~Requested(config, flag)

SearchRule(foldJournal) ==
    (Answered /\ Given(cmd.config, "search")) =>
        LET terms == Val(cmd.config.search)
            Kept(e) == \A k \in DOMAIN terms : TermRule(terms[k], e, foldJournal)
        IN  /\ \A i \in DOMAIN entries : Kept(entries[i])
            /\ SearchOnly(cmd.config) => entries = SelectSeq(QueryStart, Kept)

\* C9 as stated: with search terms, an entry is kept if and only if every
\* term is in the title, is a tag or is in the joined authors (all three
\* without regard to case), or is in the journal or in the year as written.
SearchSemantics == SearchRule(FALSE)

\* C9 as amended: the same, with the journal compared without regard to
\* case like the title, the tags and the authors; only the year is compared
\* as written.
SearchSemanticsFoldedJournal == SearchRule(TRUE)

\* C9 witness: a search for the year 20 in a collection with an entry of
\* year 20 and an entry of year 21 gives the entry of year 20 alone.
SearchYearWitness ==
    /\ Answered
    /\ cmd.config.search = Some(<<s20>>)
    /\ SearchOnly(cmd.config)
    /\ cmd.config.ref = None
    /\ Keys(before) = {LabelX, LabelY}
    /\ Len(entries) = 1
    /\ entries[1].label = LabelX

OtherCriteria(config) ==
    \/ Given(config, "search")
    \/ Given(config, "authors")
    \/ \E flag \in {"important", "to_read", "read"} : Requested(config, flag)

\* C10: when the stored collection is empty Winnow returns no entry and no
\* error; otherwise, when labels are given, a label that is not a key ends
\* Winnow with the not-found error (ValueError) whatever the other criteria
\* are, and when all are keys the result holds entries of these labels
\* only, and exactly their entries in the given order when no other
\* criterion is active.
ExplicitLabels ==
    IsQuery =>
        IF IsNone(before) THEN status = "ok" /\ entries = <<>>
        ELSE cmd.config.ref # None =>
            LET labels == Val(cmd.config.ref)
            IN  IF \E k \in DOMAIN labels : labels[k] \notin Keys(before)
                THEN status = "ValueError"
                ELSE /\ status = "ok"
                     /\ \A i \in DOMAIN entries : entries[i].label \in Range(labels)
                     /\ ~OtherCriteria(cmd.config) =>
                            /\ Len(entries) = Len(labels)
                            /\ \A k \in DOMAIN labels :
                                entries[k] \in Range(before) /\ entries[k].label = labels[k]

\* C10 witness: labels of which one is not a key, with a search term that
\* entries of the collection match, end in the not-found error.
ExplicitLabelsWitness ==
    /\ IsQuery
    /\ status = "ValueError"
    /\ cmd.config.ref = Some(<<LabelY, LabelX, LabelY>>)
    /\ cmd.config.search = Some(<<s20>>)
    /\ Keys(before) = {LabelX, LabelZ}

MarkSemantics ==
    (cmd.name = "mark" /\ status = "ok") =>
        LET config == cmd.config
            old == Entry(before, config.ref)
            new == Entry(litman_db, config.ref)
        IN  /\ Keys(litman_db) = Keys(before)
            /\ new.important = (old.important \/ config.important)
            /\ new.printed = (old.printed \/ config.printed)
            /\ new.read = (IF config.read THEN TRUE
                           ELSE IF config.to_read THEN FALSE ELSE old.read)
            /\ new = [old EXCEPT !.important = new.important, !.printed = new.printed,
                                 !.read = new.read]
            /\ \A label \in Keys(before) \ {config.ref} :
                   Entry(litman_db, label) = Entry(before, label)

\* a Mark with to_read and read together and without important and printed,
\* on an entry that was important, printed and not read, next to another entry
MarkSemanticsWitness ==
    /\ cmd.name = "mark"
    /\ status = "ok"
    /\ cmd.config.to_read /\ cmd.config.read
    /\ ~cmd.config.important /\ ~cmd.config.printed
    /\ Entry(before, cmd.config.ref).important
    /\ Entry(before, cmd.config.ref).printed
    /\ ~Entry(before, cmd.config.ref).read
    /\ Len(before) = 2

(***************************************************************************)
(* Properties of the tags.                                                 *)
(***************************************************************************)
Sorted(tags) == \A i, j \in DOMAIN tags : i < j => ~StrLess(tags[j], tags[i])
NoDuplicates(tags) == \A i, j \in DOMAIN tags : i # j => tags[i] # tags[j]

\* an Edit with rm_tag alone, on an entry of the collection
IsRmTag ==
    /\ cmd.name = "edit"
    /\ cmd.config.rm_tag # None
    /\ cmd.config.add_tag = None
    /\ cmd.config.ref \in Keys(before)

\* C13: an Edit that removes a tag the entry does not have fails and leaves
\* the stored collection as it was, and one that removes a tag the entry
\* has succeeds and leaves the entry's tags sorted and without duplicates.
TagRemoval ==
    IsRmTag =>
        IF Val(cmd.config.rm_tag) \notin Range(Entry(before, cmd.config.ref).tags)
        THEN status # "ok" /\ litman_db = before
        ELSE /\ status = "ok"
             /\ Sorted(Entry(litman_db, cmd.config.ref).tags)
             /\ NoDuplicates(Entry(litman_db, cmd.config.ref).tags)

\* C15: the tags of every entry of the collection contain the category of
\* the entry in lower case.
CategoryTagInvariant ==
    \A i \in DOMAIN litman_db :
        Lower(litman_db[i].category) \in Range(litman_db[i].tags)

(***************************************************************************)
(* Properties of Edit.                                                     *)
(***************************************************************************)
\* an Edit with the removal by index named option and nothing else, on an
\* entry of the collection
IsIndexEdit(option) ==
    /\ IsEdit
    /\ cmd.config \in IndexConfigs
    /\ cmd.config[option] # None
    /\ cmd.config.ref \in Keys(before)

OutOfRange(field, option) ==
    Val(cmd.config[option]) \notin 0..(Len(Entry(before, cmd.config.ref)[field]) - 1)

SameLists ==
    /\ Keys(litman_db) = Keys(before)
    /\ \A label \in Keys(before) :
        /\ Entry(litman_db, label).notes = Entry(before, label).notes
        /\ Entry(litman_db, label).references = Entry(before, label).references
        /\ Entry(litman_db, label).citations = Entry(before, label).citations

\* C14: an Edit with rm_note, rm_ref or rm_cite outside 0..len-1 of the
\* list it removes from, negative indexes included, ends with IndexError and
\* leaves the notes, references and citations of every entry as they were.
IndexValidation ==
    \A pair \in {<<"notes", "rm_note">>, <<"references", "rm_ref">>, <<"citations", "rm_cite">>} :
        (IsIndexEdit(pair[2]) /\ OutOfRange(pair[1], pair[2])) =>
            (status = "IndexError" /\ SameLists)

\* C16: an Edit command that ends with an exception, whichever sub-edit
\* raised it, leaves the stored collection exactly as it was before the
\* command.
FailFast == (IsEdit /\ status # "ok") => litman_db = before

\* an Edit of an entry with a note and a reference to an entry that does
\* not cite it back: the tag is added, the note deleted and the reference
\* removed from the loaded entry before the removal of the citation raises
FailFastWitness ==
    /\ IsEdit
    /\ status = "ValueError"
    /\ cmd.config.ref \in Keys(before)
    /\ cmd.config.add_tag # None
    /\ cmd.config.rm_tag = None
    /\ cmd.config.rm_note = Some(0)
    /\ cmd.config.rm_ref = Some(0)
    /\ Len(Entry(before, cmd.config.ref).notes) = 1
    /\ Len(Entry(before, cmd.config.ref).references) = 1
    /\ Entry(before, cmd.config.ref).references[1] \in Keys(before)

====
